---- MODULE Spec2Model ----
(***************************************************************************)
(* Model of NCM-Fingerprint-Tagger: tag_updater.py (segment planning, the  *)
(* per-segment recognition loop, per-field voting, the tag gate, the tag   *)
(* writer, the batch loop) and the import guards of audio_fingerprint.py.  *)
(*                                                                         *)
(* Python values are modelled as follows.                                  *)
(*   str    a sequence of character tokens; "" is << >>                    *)
(*   dict   a function whose DOMAIN is the set of keys present             *)
(*   list   a sequence                                                     *)
(*   float  a record [m, e] standing for m * 2^e, m a little-endian        *)
(*          sequence of base-LimbBase digits of at most MantissaBits bits  *)
(*          (IEEE-754 binary64, round to nearest, ties to even)            *)
(*   None   the record NoneValue                                           *)
(***************************************************************************)
EXTENDS Integers, Sequences, FiniteSets, TLC

VARIABLES
    pc,                     \* position of the running function
    pythonmonkey_available, \* 'pythonmonkey' can be imported
    pyncm_available,        \* 'pyncm' can be imported
    afp_js_available,       \* require('./docs/afp.js') succeeds
    exit_status,            \* the process's exit status once pc = "exited"
    num_segments,           \* args.segments
    tags_to_write,          \* args.tags
    force_update,           \* args.force
    files_left,             \* files of files_to_process not yet handled
    skipped_count,          \* process_path's skipped_count
    file,                   \* the file being handled (its state on disk)
    tags_before,            \* history: the file's tags when its turn began
    probed,                 \* history: get_audio_duration ran for the file
    saved,                  \* history: audio.save() was called for the file
    duration,               \* recognize_song's duration
    start_times,            \* recognize_song's start_times
    seg_index,              \* recognize_song's loop index i (0-based)
    fp,                     \* recognize_song's fp
    result,                 \* recognize_song's result (the API response)
    all_successful_results, \* recognize_song's all_successful_results
    segment_log,            \* history: one entry per segment attempt
    resolver_calls,         \* history: arguments of find_most_common_result
    song_info,              \* process_path's song_info / a function's result
    results,                \* find_most_common_result's argument
    candidates              \* the files a traversal of `path` can find

vars == <<pc, pythonmonkey_available, pyncm_available, afp_js_available,
          exit_status, num_segments, tags_to_write, force_update, files_left,
          skipped_count, file, tags_before, probed, saved, duration,
          start_times, seg_index, fp, result, all_successful_results,
          segment_log, resolver_calls, song_info, results, candidates>>

envVars == <<pythonmonkey_available, pyncm_available, afp_js_available>>
argVars == <<num_segments, tags_to_write, force_update>>
batchVars == <<files_left, skipped_count, candidates>>
fileVars == <<file, tags_before, probed, saved>>
loopVars == <<seg_index, fp, result, all_successful_results>>

-----------------------------------------------------------------------------
(* Bounds of the model *)

\* Longest duration, in whole seconds, the planner is run on.
MaxDuration == 64
\* Durations are multiples of 2^-FracBits seconds.
FracBits == 1
\* Largest -n/--segments value the planner is run on.
MaxPlanSegments == 8
\* Most negative -n/--segments value the planner is run on is -MaxNegSegments.
MaxNegSegments == 1
\* Largest -n/--segments value the whole pipeline is run with.
MaxSegments == 3
\* Most files a traversal finds.
MaxFiles == 2
\* Longest list find_most_common_result is run on.
MaxResults == 3

-----------------------------------------------------------------------------
(* Python's None *)

NoneValue == [none |-> TRUE]

\* An exception leaving a function
Raised(exc) == [raised |-> exc]

-----------------------------------------------------------------------------
(* Python dicts and strings *)

EmptyDict == << >>

\* d.get(k, default)
Get(d, k, default) == IF k \in DOMAIN d THEN d[k] ELSE default

Str(token) == <<token>>

Whitespace == {" "}

RECURSIVE LStrip(_)
LStrip(s) ==
    IF s = << >> THEN << >>
    ELSE IF Head(s) \in Whitespace THEN LStrip(Tail(s))
    ELSE s

RECURSIVE RStrip(_)
RStrip(s) ==
    IF s = << >> THEN << >>
    ELSE IF s[Len(s)] \in Whitespace THEN RStrip(SubSeq(s, 1, Len(s) - 1))
    ELSE s

\* s.strip()
Strip(s) == RStrip(LStrip(s))

\* sep.join(parts)
RECURSIVE Join(_, _)
Join(sep, parts) ==
    IF parts = << >> THEN << >>
    ELSE IF Len(parts) = 1 THEN parts[1]
    ELSE parts[1] \o sep \o Join(sep, Tail(parts))

Fields == {"title", "artist", "album"}

-----------------------------------------------------------------------------------------------------------------------------------------------------
(* Natural numbers of any size, as little-endian sequences of limbs        *)
(* (digits in base LimbBase) without high zero limbs; zero is << >>.       *)

LimbBase == 2^15

\* floor(log2(n)) for n >= 1
RECURSIVE Log2(_)
Log2(n) == IF n <= 1 THEN 0 ELSE 1 + Log2(n \div 2)

LimbWidth == Log2(LimbBase)

RECURSIVE Pow2(_)
Pow2(k) == IF k = 0 THEN 1 ELSE 2 * Pow2(k - 1)

RECURSIVE NatToLimbs(_)
NatToLimbs(n) ==
    IF n = 0 THEN << >> ELSE <<n % LimbBase>> \o NatToLimbs(n \div LimbBase)

RECURSIVE LimbsToNat(_)
LimbsToNat(b) == IF b = << >> THEN 0 ELSE Head(b) + LimbBase * LimbsToNat(Tail(b))

RECURSIVE TrimLimbs(_)
TrimLimbs(b) ==
    IF Len(b) = 0 THEN << >>
    ELSE IF b[Len(b)] = 0 THEN TrimLimbs(SubSeq(b, 1, Len(b) - 1))
    ELSE b

\* number of bits of b
BitLength(b) ==
    IF b = << >> THEN 0 ELSE (Len(b) - 1) * LimbWidth + Log2(b[Len(b)]) + 1

\* bit number pos (from 0) of b
BitAt(b, pos) ==
    IF pos \div LimbWidth >= Len(b) THEN 0
    ELSE (b[(pos \div LimbWidth) + 1] \div Pow2(pos % LimbWidth)) % 2

\* one of the bits 0 .. cnt-1 of b is set
LowBitsSet(b, cnt) ==
    \/ \E i \in 1..Len(b) : i <= cnt \div LimbWidth /\ b[i] # 0
    \/ /\ cnt \div LimbWidth < Len(b)
       /\ b[(cnt \div LimbWidth) + 1] % Pow2(cnt % LimbWidth) # 0

RECURSIVE AddLimbs(_, _, _)
AddLimbs(a, b, carry) ==
    IF a = << >> /\ b = << >>
    THEN IF carry = 0 THEN << >> ELSE <<carry>>
    ELSE LET x == IF a = << >> THEN 0 ELSE Head(a)
             y == IF b = << >> THEN 0 ELSE Head(b)
             t == x + y + carry
         IN <<t % LimbBase>> \o AddLimbs(IF a = << >> THEN << >> ELSE Tail(a),
                                         IF b = << >> THEN << >> ELSE Tail(b),
                                         t \div LimbBase)

\* a - b for a >= b
RECURSIVE SubLimbsRaw(_, _, _)
SubLimbsRaw(a, b, borrow) ==
    IF a = << >> THEN << >>
    ELSE LET y == IF b = << >> THEN 0 ELSE Head(b)
             t == Head(a) - y - borrow
         IN <<t % LimbBase>> \o SubLimbsRaw(Tail(a),
                                            IF b = << >> THEN << >> ELSE Tail(b),
                                            IF t < 0 THEN 1 ELSE 0)

SubLimbs(a, b) == TrimLimbs(SubLimbsRaw(a, b, 0))

\* a < b
RECURSIVE LessLimbs(_, _)
LessLimbs(a, b) ==
    IF Len(a) # Len(b) THEN Len(a) < Len(b)
    ELSE IF Len(a) = 0 THEN FALSE
    ELSE IF a[Len(a)] # b[Len(b)] THEN a[Len(a)] < b[Len(b)]
    ELSE LessLimbs(TrimLimbs(SubSeq(a, 1, Len(a) - 1)),
                   TrimLimbs(SubSeq(b, 1, Len(b) - 1)))

\* b * k + carry for 0 <= k < LimbBase
RECURSIVE MulSmallRaw(_, _, _)
MulSmallRaw(b, k, carry) ==
    IF b = << >> THEN NatToLimbs(carry)
    ELSE LET t == Head(b) * k + carry
         IN <<t % LimbBase>> \o MulSmallRaw(Tail(b), k, t \div LimbBase)

MulSmall(b, k) == TrimLimbs(MulSmallRaw(b, k, 0))

\* a * b
RECURSIVE MulLimbs(_, _)
MulLimbs(a, b) ==
    IF a = << >> \/ b = << >> THEN << >>
    ELSE LET rest == MulLimbs(Tail(a), b)
         IN AddLimbs(MulSmall(b, Head(a)),
                     IF rest = << >> THEN << >> ELSE <<0>> \o rest, 0)

\* quotient and remainder of b by k, 0 < k < LimbBase
RECURSIVE DivSmall(_, _)
DivSmall(b, k) ==
    IF b = << >> THEN [q |-> << >>, r |-> 0]
    ELSE LET hi == DivSmall(Tail(b), k)
             t == hi.r * LimbBase + Head(b)
         IN [q |-> <<t \div k>> \o hi.q, r |-> t % k]

\* b * 2^s
ShiftLeft(b, s) ==
    IF b = << >> THEN << >>
    ELSE [i \in 1..(s \div LimbWidth) |-> 0] \o MulSmall(b, Pow2(s % LimbWidth))

\* floor(b / 2^s)
ShiftRight(b, s) ==
    LET q == s \div LimbWidth
        r == s % LimbWidth
    IN IF Len(b) <= q THEN << >>
       ELSE TrimLimbs([i \in 1..(Len(b) - q) |->
                (b[q + i] \div Pow2(r))
                + (IF q + i < Len(b)
                   THEN (b[q + i + 1] % Pow2(r)) * Pow2(LimbWidth - r)
                   ELSE 0)])

-----------------------------------------------------------------------------
(* Python floats (IEEE-754 binary64), non-negative values only *)

\* Bits of a binary64 significand.
MantissaBits == 53

FloatZero == [m |-> << >>, e |-> 0]

IntToFloat(n) == [m |-> NatToLimbs(n), e |-> 0]

\* The nearest float to b * 2^e (plus a non-zero fraction of 2^e when sticky):
\* round to nearest, ties to even.
RoundFloat(b, e, sticky) ==
    IF BitLength(b) <= MantissaBits THEN [m |-> b, e |-> e]
    ELSE LET drop == BitLength(b) - MantissaBits
             kept == ShiftRight(b, drop)
             guard == BitAt(b, drop - 1)
             rest == sticky \/ LowBitsSet(b, drop - 1)
             up == guard = 1 /\ (rest \/ BitAt(kept, 0) = 1)
             r == IF up THEN AddLimbs(kept, <<1>>, 0) ELSE kept
         IN IF BitLength(r) > MantissaBits
            THEN [m |-> ShiftRight(r, 1), e |-> e + drop + 1]
            ELSE [m |-> r, e |-> e + drop]

\* both significands brought to the smaller exponent
Aligned(x, y) ==
    LET e0 == IF x.e < y.e THEN x.e ELSE y.e
    IN [a |-> ShiftLeft(x.m, x.e - e0), b |-> ShiftLeft(y.m, y.e - e0), e |-> e0]

\* x < y
FloatLess(x, y) == LET al == Aligned(x, y) IN LessLimbs(al.a, al.b)

\* x - y for x >= y
FloatSub(x, y) ==
    LET al == Aligned(x, y) IN RoundFloat(SubLimbs(al.a, al.b), al.e, FALSE)

\* max(x, y)
FloatMax(x, y) == IF FloatLess(x, y) THEN y ELSE x

\* x * y
FloatMul(x, y) ==
    IF x.m = << >> \/ y.m = << >> THEN FloatZero
    ELSE RoundFloat(MulLimbs(x.m, y.m), x.e + y.e, FALSE)

\* x / k for an integer 0 < k < LimbBase (Python converts k to a float exactly)
FloatDivInt(x, k) ==
    IF x.m = << >> THEN FloatZero
    ELSE LET s == MantissaBits + 2 + BitLength(NatToLimbs(k))
             d == DivSmall(ShiftLeft(x.m, s), k)
         IN RoundFloat(TrimLimbs(d.q), x.e - s, d.r # 0)

\* int(x): truncation
FloatTrunc(x) ==
    IF x.e >= 0 THEN LimbsToNat(ShiftLeft(x.m, x.e))
    ELSE LimbsToNat(ShiftRight(x.m, 0 - x.e))

\* The literal 0.3 = 0x1.3333333333333p-2 = 0x13333333333333 * 2^-54
Float03 == [m |-> <<13107, 26214, 19660, 153>>, e |-> -54]

\* The float of ticks * 2^-FracBits seconds
TicksToFloat(ticks) == [m |-> NatToLimbs(ticks), e |-> 0 - FracBits]

-----
(* audio_fingerprint.py: configuration *)

FINGERPRINT_DURATION == 3

(* tag_updater.py: recognize_song, the planning of start_times *)

fallback_interval == 30

\* a planner that ignores the duration and plans one offset more than
\* requested
StartTimes_OneMore(dur, n) ==
    [i \in 1..(n + 1) |-> (i - 1) * fallback_interval]

StartTimes(dur, n) ==
    IF dur = NoneValue
    THEN [i \in 1..n |-> (i - 1) * fallback_interval]
    ELSE IF FloatLess(dur, IntToFloat(FINGERPRINT_DURATION))
    THEN <<0>>
    ELSE IF n = 1
    THEN <<FloatTrunc(FloatMul(dur, Float03))>>
    ELSE LET valid_window_end ==
                 FloatMax(FloatZero, FloatSub(dur, IntToFloat(FINGERPRINT_DURATION)))
             interval == IF n > 1 THEN FloatDivInt(valid_window_end, n - 1)
                         ELSE FloatZero
         IN [i \in 1..n |-> FloatTrunc(FloatMul(IntToFloat(i - 1), interval))]

-----------------------------------------------------------------------------
(* tag_updater.py: extract_song_info                                       *)
(* A response is a dict; a dict-valued position may also hold JSON null    *)
(* (NoneValue); string- and list-valued positions hold a value of their    *)
(* type or are missing.                                                    *)

\* ' & '
ArtistSeparator == <<" ", "&", " ">>

\* the default of artist.get('name', ...): the Chinese word for "unknown"
UnknownArtist == Str("unknown")

ArtistNames(artists_list) ==
    [i \in 1..Len(artists_list) |-> Get(artists_list[i], "name", UnknownArtist)]

ExtractSongInfo(api_result) ==
    LET data == Get(api_result, "data", EmptyDict)
    IN
    IF data = NoneValue THEN Raised("AttributeError")
    ELSE
    LET songs == Get(data, "result", << >>)
    IN
    IF songs = << >> THEN NoneValue
    ELSE
    LET song_data == Get(songs[1], "song", EmptyDict)
    IN
    IF song_data = NoneValue \/ DOMAIN song_data = {} THEN NoneValue
    ELSE
    LET album_data == Get(song_data, "album", EmptyDict)
    IN
    IF album_data = NoneValue THEN Raised("AttributeError")
    ELSE
    LET artists_list == Get(song_data, "artists", << >>)
        artist == Join(ArtistSeparator, ArtistNames(artists_list))
        has_title == "name" \in DOMAIN song_data /\ song_data["name"] # << >>
        has_album == "name" \in DOMAIN album_data /\ album_data["name"] # << >>
        keys == (IF has_title THEN {"title"} ELSE {})
                \cup (IF artist # << >> THEN {"artist"} ELSE {})
                \cup (IF has_album THEN {"album"} ELSE {})
        info == [k \in keys |->
                    IF k = "title" THEN song_data["name"]
                    ELSE IF k = "artist" THEN artist
                    ELSE album_data["name"]]
    IN IF keys = {} THEN NoneValue ELSE info

-----------------------------------------------------------------------------
(* tag_updater.py: find_most_common_result *)

\* [info.get(f) for info in results if info.get(f)]
RECURSIVE FieldValues(_, _)
FieldValues(rs, f) ==
    IF rs = << >> THEN << >>
    ELSE (IF f \in DOMAIN Head(rs) /\ Head(rs)[f] # << >>
          THEN <<Head(rs)[f]>> ELSE << >>)
         \o FieldValues(Tail(rs), f)

\* Counter(values): the entries [value, count] in order of first insertion
RECURSIVE Counter(_)
Counter(values) ==
    IF values = << >> THEN << >>
    ELSE LET init == Counter(SubSeq(values, 1, Len(values) - 1))
             v == values[Len(values)]
         IN IF \E j \in 1..Len(init) : init[j].value = v
            THEN [j \in 1..Len(init) |->
                     IF init[j].value = v
                     THEN [value |-> v, count |-> init[j].count + 1]
                     ELSE init[j]]
            ELSE Append(init, [value |-> v, count |-> 1])

\* a most_common that keeps the last of the entries with the highest count
RECURSIVE MostCommon_LastWins(_)
MostCommon_LastWins(counter) ==
    IF Len(counter) = 1 THEN counter[1]
    ELSE LET best == MostCommon_LastWins(SubSeq(counter, 1, Len(counter) - 1))
             last == counter[Len(counter)]
         IN IF last.count >= best.count THEN last ELSE best

\* counter.most_common(1)[0]: max() over the entries by count, which keeps
\* the first of the entries with the highest count
RECURSIVE MostCommon(_)
MostCommon(counter) ==
    IF Len(counter) = 1 THEN counter[1]
    ELSE LET best == MostCommon(SubSeq(counter, 1, Len(counter) - 1))
             last == counter[Len(counter)]
         IN IF last.count > best.count THEN last ELSE best

FindMostCommonResult(rs) ==
    IF rs = << >> THEN NoneValue
    ELSE LET voted == {f \in Fields : FieldValues(rs, f) # << >>}
             final_result ==
                 [f \in voted |-> MostCommon(Counter(FieldValues(rs, f))).value]
         IN IF voted = {} THEN NoneValue ELSE final_result

-----------------------------------------------------------------------------
(* Files.  A file on disk is a record                                      *)
(*   open          what mutagen.File(path) does: "ok" (an object), "none"  *)
(*                 (returns None), "error" (raises)                        *)
(*   ext           the file name's extension                               *)
(*   has_tags      audio.tags is not None                                  *)
(*   other_frames  the file carries tag frames besides title/artist/album  *)
(*   tags          the easy tags: a dict from field to list of str         *)
(*   length        audio.info.length                                       *)

\* tag_updater.py: get_audio_duration.  subprocess.run is called with
\* capture_output=True and stderr=DEVNULL together, which raises ValueError
\* before ffprobe is started; the handler falls back to mutagen, where
\* `if audio` is the truth value of a mutagen FileType: it has tag keys.
GetAudioDuration(f) ==
    IF f.open = "ok" /\ (DOMAIN f.tags # {} \/ f.other_frames)
    THEN f.length
    ELSE NoneValue

\* a has_complete_tags without the .strip(): a blank tag counts as a tag
HasCompleteTags_Unstripped(f) ==
    IF f.open = "error" THEN FALSE
    ELSE IF f.open = "none" \/ ~f.has_tags THEN FALSE
    ELSE IF \E k \in Fields : k \in DOMAIN f.tags /\ f.tags[k] = << >> THEN FALSE
    ELSE \A k \in Fields : Get(f.tags, k, << << >> >>)[1] # << >>

\* tag_updater.py: has_complete_tags
HasCompleteTags(f) ==
    IF f.open = "error" THEN FALSE
    ELSE IF f.open = "none" \/ ~f.has_tags THEN FALSE
    ELSE IF \E k \in Fields : k \in DOMAIN f.tags /\ f.tags[k] = << >> THEN FALSE
    ELSE \A k \in Fields : Strip(Get(f.tags, k, << << >> >>)[1]) # << >>

\* an update_metadata that writes every field of the result, requested or not
UpdateMetadata_AllFields(f, info, wanted, loader_ok, save_ok) ==
    LET loaded == \/ f.open = "ok"
                  \/ f.open = "none" /\ f.ext \in {"mp3", "m4a"} /\ loader_ok
        updated_tags == {k \in Fields : k \in DOMAIN info}
        new_tags == [k \in DOMAIN f.tags \cup updated_tags |->
                        IF k \in updated_tags THEN <<info[k]>> ELSE f.tags[k]]
    IN IF ~loaded \/ updated_tags = {} THEN [file |-> f, saved |-> FALSE]
       ELSE IF ~save_ok THEN [file |-> f, saved |-> TRUE]
       ELSE [file |-> [f EXCEPT !.tags = new_tags, !.has_tags = TRUE],
             saved |-> TRUE]

\* tag_updater.py: update_metadata.  loader_ok: the EasyID3/EasyMP4 fallback
\* loads the file; save_ok: audio.save() succeeds.  The result is the file
\* afterwards and whether audio.save() was called.
UpdateMetadata(f, info, wanted, loader_ok, save_ok) ==
    LET loaded == \/ f.open = "ok"
                  \/ f.open = "none" /\ f.ext \in {"mp3", "m4a"} /\ loader_ok
        updated_tags == {k \in Fields : k \in wanted /\ k \in DOMAIN info}
        new_tags == [k \in DOMAIN f.tags \cup updated_tags |->
                        IF k \in updated_tags THEN <<info[k]>> ELSE f.tags[k]]
    IN IF ~loaded \/ updated_tags = {} THEN [file |-> f, saved |-> FALSE]
       ELSE IF ~save_ok THEN [file |-> f, saved |-> TRUE]
       ELSE [file |-> [f EXCEPT !.tags = new_tags, !.has_tags = TRUE],
             saved |-> TRUE]

\* audio_fingerprint.py: _PYNCM_AVAILABLE
PYNCM_AVAILABLE == pythonmonkey_available /\ pyncm_available

-----------------------------------------------------------------------------
(* Inputs *)

\* an optional value: << >> (missing) or <<v>>
Missing == << >>
Some(v) == <<v>>

\* the dict holding the keys of opt (a function from keys to optional values)
\* that are not missing
DictOf(opt) == [k \in {k \in DOMAIN opt : opt[k] # Missing} |-> opt[k][1]]

\* Durations the planner is run on: unknown, and every multiple of
\* 2^-FracBits seconds up to MaxDuration seconds.
PlanDurations ==
    {NoneValue} \cup {TicksToFloat(t) : t \in 0..(MaxDuration * Pow2(FracBits))}

PlanSegments == (0 - MaxNegSegments)..MaxPlanSegments

\* Existing tags of a file
TagOptions(field) ==
    {Missing, Some(<<Str(" ")>>), Some(<<Str("Old")>>)}
    \cup (IF field = "title" THEN {Some(<< >>)} ELSE {})

TaggedFile(tags, frames, len) ==
    [open |-> "ok", ext |-> "mp3", has_tags |-> TRUE, other_frames |-> frames,
     tags |-> tags, length |-> len]

UntaggedFile == [open |-> "ok", ext |-> "flac", has_tags |-> FALSE,
                 other_frames |-> FALSE, tags |-> EmptyDict,
                 length |-> IntToFloat(10)]

UnloadableFile(ext) == [open |-> "none", ext |-> ext, has_tags |-> FALSE,
                        other_frames |-> FALSE, tags |-> EmptyDict,
                        length |-> NoneValue]

BrokenFile == [open |-> "error", ext |-> "ogg", has_tags |-> FALSE,
               other_frames |-> FALSE, tags |-> EmptyDict,
               length |-> NoneValue]

CompleteTags == [k \in Fields |-> <<Str("Old")>>]

\* the files of the recognition runs
CoreFiles ==
    { TaggedFile(CompleteTags, FALSE, IntToFloat(10)),
      TaggedFile(EmptyDict, TRUE, IntToFloat(10)),
      TaggedFile([title |-> <<Str("Old")>>], FALSE, IntToFloat(2)),
      BrokenFile }

\* the files of the batch runs
AllFiles ==
    { TaggedFile(DictOf(opt), FALSE, IntToFloat(10)) :
          opt \in {o \in [Fields -> UNION {TagOptions(k) : k \in Fields}] :
                      \A k \in Fields : o[k] \in TagOptions(k)} }
    \cup { UntaggedFile, UnloadableFile("mp3"), UnloadableFile("wav"), BrokenFile }

SongOf(name, artists, album) ==
    DictOf([k \in {"name", "artists", "album"} |->
               IF k = "name" THEN name ELSE IF k = "artists" THEN artists ELSE album])

ResponseOf(candidates_list) == [data |-> [result |-> candidates_list]]

ArtistEntry(name) == [name |-> Str(name)]

\* what GetMatchTrackByFP answers in the pipeline runs
MatchResponses ==
    { EmptyDict,
      [data |-> NoneValue],
      ResponseOf(<<[song |-> SongOf(Some(Str("T1")), Some(<<ArtistEntry("A1")>>),
                                   Some([name |-> Str("L1")]))]>>),
      ResponseOf(<<[song |-> SongOf(Some(Str("T2")), Some(<<ArtistEntry("A1")>>),
                                   Missing)]>>) }

\* the responses extract_song_info is run on
NameOptions == {Missing, Some(<< >>), Some(Str("T"))}
AlbumOptions == {Missing, Some(NoneValue), Some(EmptyDict),
                 Some([name |-> << >>]), Some([name |-> Str("L")])}
ArtistsOptions ==
    {Missing, Some(<< >>), Some(<<ArtistEntry("A")>>),
     Some(<<ArtistEntry("A"), ArtistEntry("B")>>), Some(<<EmptyDict>>),
     Some(<<ArtistEntry("A"), EmptyDict>>), Some(<<[name |-> << >>]>>),
     Some(<<[name |-> << >>], [name |-> << >>]>>)}

Songs == {SongOf(n, a, l) : n \in NameOptions, a \in ArtistsOptions, l \in AlbumOptions}

Candidates == {EmptyDict, [song |-> NoneValue]} \cup {[song |-> s] : s \in Songs}

OtherCandidate == [song |-> SongOf(Some(Str("T9")), Some(<<ArtistEntry("A9")>>),
                                   Some([name |-> Str("L9")]))]

AllResponses ==
    {EmptyDict, [data |-> NoneValue], [data |-> EmptyDict], ResponseOf(<< >>)}
    \cup {ResponseOf(<<c>>) : c \in Candidates}
    \cup {ResponseOf(<<c, OtherCandidate>>) : c \in Candidates}

\* the SongInfo records find_most_common_result is run on
VoteInfos ==
    {DictOf([k \in Fields |-> IF k = "title" THEN t ELSE IF k = "artist" THEN a ELSE l]) :
        t \in {Missing, Some(<< >>), Some(Str("A")), Some(Str("B"))},
        a \in {Missing, Some(Str("X")), Some(Str("Y"))},
        l \in {Missing, Some(Str("L"))}}

VoteInputs == UNION {[1..n -> VoteInfos] : n \in 0..MaxResults}

-----------------------------------------------------------------------------
(* Initial states *)

NoFileYet ==
    /\ file = NoneValue
    /\ tags_before = EmptyDict
    /\ probed = FALSE
    /\ saved = FALSE

FreshLocals ==
    /\ duration = NoneValue
    /\ start_times = << >>
    /\ seg_index = 0
    /\ fp = << >>
    /\ result = EmptyDict
    /\ all_successful_results = << >>
    /\ segment_log = << >>
    /\ resolver_calls = << >>
    /\ song_info = NoneValue
    /\ results = << >>

\* exit_status is -1 while the process runs
NoBatch ==
    /\ exit_status = -1
    /\ files_left = 0
    /\ skipped_count = 0

\* `python tag_updater.py PATH [-n N] [-f]` on the recognition files, with
\* any of the collaborators missing
Init ==
    /\ pc = "import"
    /\ pythonmonkey_available \in BOOLEAN
    /\ pyncm_available \in BOOLEAN
    /\ afp_js_available \in BOOLEAN
    /\ num_segments \in 0..MaxSegments
    /\ tags_to_write = Fields
    /\ force_update \in BOOLEAN
    /\ candidates = CoreFiles
    /\ NoBatch /\ NoFileYet /\ FreshLocals

\* `python tag_updater.py PATH [-t ...] [-f]` on the batch files
InitBatch ==
    /\ pc = "import"
    /\ pythonmonkey_available = TRUE
    /\ pyncm_available = TRUE
    /\ afp_js_available = TRUE
    /\ num_segments = 1
    /\ tags_to_write \in {Fields, {"title"}, {"artist", "album"}}
    /\ force_update \in BOOLEAN
    /\ candidates = AllFiles
    /\ NoBatch /\ NoFileYet /\ FreshLocals

Idle ==
    /\ pythonmonkey_available = TRUE
    /\ pyncm_available = TRUE
    /\ afp_js_available = TRUE
    /\ tags_to_write = Fields
    /\ force_update = FALSE
    /\ candidates = {}
    /\ NoBatch /\ NoFileYet

\* recognize_song about to plan its start_times
InitPlan ==
    /\ pc = "plan"
    /\ num_segments \in PlanSegments
    /\ Idle
    /\ duration \in PlanDurations
    /\ start_times = << >>
    /\ seg_index = 0
    /\ fp = << >>
    /\ result = EmptyDict
    /\ all_successful_results = << >>
    /\ segment_log = << >>
    /\ resolver_calls = << >>
    /\ song_info = NoneValue
    /\ results = << >>

\* a call of find_most_common_result
InitVote ==
    /\ pc = "vote"
    /\ num_segments = 1
    /\ Idle
    /\ duration = NoneValue
    /\ start_times = << >>
    /\ seg_index = 0
    /\ fp = << >>
    /\ result = EmptyDict
    /\ all_successful_results = << >>
    /\ segment_log = << >>
    /\ resolver_calls = << >>
    /\ song_info = NoneValue
    /\ results \in VoteInputs

\* a call of extract_song_info
InitExtract ==
    /\ pc = "extract_call"
    /\ num_segments = 1
    /\ Idle
    /\ duration = NoneValue
    /\ start_times = << >>
    /\ seg_index = 0
    /\ fp = << >>
    /\ result \in AllResponses
    /\ all_successful_results = << >>
    /\ segment_log = << >>
    /\ resolver_calls = << >>
    /\ song_info = NoneValue
    /\ results = << >>

-----------------------------------------------------------------------------
(* Start-up *)

\* tag_updater.py, lines 12-17, importing audio_fingerprint.py, lines 43-50:
\* audio_fingerprint catches its own ImportError (pythonmonkey or pyncm
\* missing) and only clears _PYNCM_AVAILABLE, so the import of tag_updater
\* fails, and the process exits with status 1, only when pyncm is missing.
ImportGuard ==
    /\ pc = "import"
    /\ IF ~pyncm_available
       THEN pc' = "exited" /\ exit_status' = 1
       ELSE pc' = "main" /\ UNCHANGED exit_status
    /\ UNCHANGED <<envVars, argVars, batchVars, fileVars, loopVars, duration,
                   start_times, segment_log, resolver_calls, song_info, results>>

(* process_path *)

\* main and process_path up to the loop: the traversal finds k files
ProcessPath ==
    /\ pc = "main"
    /\ \E k \in 0..MaxFiles : files_left' = k
    /\ skipped_count' = 0
    /\ pc' = "next_file"
    /\ UNCHANGED <<envVars, argVars, candidates, fileVars, loopVars, exit_status,
                   duration, start_times, segment_log, resolver_calls, song_info,
                   results>>

\* the loop takes the next file; recognize_song's locals do not exist yet
NextFile ==
    /\ pc = "next_file"
    /\ files_left > 0
    /\ \E f \in candidates : file' = f /\ tags_before' = f.tags
    /\ probed' = FALSE
    /\ saved' = FALSE
    /\ duration' = NoneValue
    /\ start_times' = << >>
    /\ seg_index' = 0
    /\ fp' = << >>
    /\ result' = EmptyDict
    /\ all_successful_results' = << >>
    /\ segment_log' = << >>
    /\ resolver_calls' = << >>
    /\ song_info' = NoneValue
    /\ results' = << >>
    /\ pc' = "gate"
    /\ UNCHANGED <<envVars, argVars, batchVars, exit_status>>

\* every file is handled: process_path and main return
Finish ==
    /\ pc = "next_file"
    /\ files_left = 0
    /\ pc' = "exited"
    /\ exit_status' = 0
    /\ UNCHANGED <<envVars, argVars, batchVars, fileVars, loopVars, duration,
                   start_times, segment_log, resolver_calls, song_info, results>>

\* `if not force_update and has_complete_tags(file_path)`: skip the file
SkipFile ==
    /\ pc = "gate"
    /\ ~force_update /\ HasCompleteTags(file)
    /\ skipped_count' = skipped_count + 1
    /\ files_left' = files_left - 1
    /\ pc' = "next_file"
    /\ UNCHANGED <<envVars, argVars, candidates, fileVars, loopVars, exit_status,
                   duration, start_times, segment_log, resolver_calls, song_info,
                   results>>

(* recognize_song *)

\* the call of recognize_song, up to `duration = get_audio_duration(...)`
ProbeDuration ==
    /\ pc = "gate"
    /\ ~(~force_update /\ HasCompleteTags(file))
    /\ duration' = GetAudioDuration(file)
    /\ probed' = TRUE
    /\ pc' = "plan"
    /\ UNCHANGED <<envVars, argVars, batchVars, file, tags_before, saved, loopVars,
                   exit_status, start_times, segment_log, resolver_calls, song_info,
                   results>>

\* the planning of start_times
PlanStartTimes ==
    /\ pc = "plan"
    /\ start_times' = StartTimes(duration, num_segments)
    /\ seg_index' = 0
    /\ all_successful_results' = << >>
    /\ pc' = "loop"
    /\ UNCHANGED <<envVars, argVars, batchVars, fileVars, exit_status, duration, fp,
                   result, segment_log, resolver_calls, song_info, results>>

\* `for i, offset in enumerate(start_times)`: the next offset
BeginSegment ==
    /\ pc = "loop"
    /\ seg_index < Len(start_times)
    /\ segment_log' = Append(segment_log,
                             [ev |-> "attempt", offset |-> start_times[seg_index + 1]])
    /\ pc' = "fingerprint"
    /\ UNCHANGED <<envVars, argVars, batchVars, fileVars, loopVars, exit_status,
                   duration, start_times, resolver_calls, song_info, results>>

\* a loop without the `except Exception`: the exception leaves recognize_song
\* and ends the process
HandleException_Propagates ==
    /\ segment_log' = Append(segment_log, [ev |-> "exception"])
    /\ pc' = "exited"
    /\ exit_status' = 1
    /\ UNCHANGED <<envVars, argVars, batchVars, fileVars, loopVars, duration,
                   start_times, resolver_calls, song_info, results>>

\* `except Exception as e`: print, and go on with the next offset
HandleException ==
    /\ segment_log' = Append(segment_log, [ev |-> "exception"])
    /\ seg_index' = seg_index + 1
    /\ pc' = "loop"
    /\ UNCHANGED <<envVars, argVars, batchVars, fileVars, exit_status, duration,
                   start_times, fp, result, all_successful_results, resolver_calls,
                   song_info, results>>

\* generate_fingerprint_from_file raises: RuntimeError when _PYNCM_AVAILABLE is
\* false, CalledProcessError or ValueError from ffmpeg, an error of
\* require('./docs/afp.js') or of GenerateFP
FingerprintRaises ==
    /\ pc = "fingerprint"
    /\ HandleException

\* generate_fingerprint_from_file returns an empty fingerprint: `continue`
FingerprintEmpty ==
    /\ pc = "fingerprint"
    /\ PYNCM_AVAILABLE /\ afp_js_available
    /\ fp' = << >>
    /\ segment_log' = Append(segment_log, [ev |-> "no_fingerprint"])
    /\ seg_index' = seg_index + 1
    /\ pc' = "loop"
    /\ UNCHANGED <<envVars, argVars, batchVars, fileVars, exit_status, duration,
                   start_times, result, all_successful_results, resolver_calls,
                   song_info, results>>

\* generate_fingerprint_from_file returns a fingerprint
FingerprintReturned ==
    /\ pc = "fingerprint"
    /\ PYNCM_AVAILABLE /\ afp_js_available
    /\ fp' = Str("fingerprint")
    /\ pc' = "match"
    /\ UNCHANGED <<envVars, argVars, batchVars, fileVars, exit_status, duration,
                   start_times, seg_index, result, all_successful_results,
                   segment_log, resolver_calls, song_info, results>>

\* GetMatchTrackByFP raises (network, decoding)
MatchRaises ==
    /\ pc = "match"
    /\ HandleException

\* GetMatchTrackByFP answers
MatchReturns ==
    /\ pc = "match"
    /\ \E r \in MatchResponses : result' = r
    /\ pc' = "extract"
    /\ UNCHANGED <<envVars, argVars, batchVars, fileVars, exit_status, duration,
                   start_times, seg_index, fp, all_successful_results, segment_log,
                   resolver_calls, song_info, results>>

\* extract_song_info lets an exception through
ExtractRaises ==
    /\ pc = "extract"
    /\ "raised" \in DOMAIN ExtractSongInfo(result)
    /\ HandleException

\* `song_info = extract_song_info(result)` and the `if song_info` after it
ExtractReturns ==
    /\ pc = "extract"
    /\ LET info == ExtractSongInfo(result)
       IN /\ "raised" \notin DOMAIN info
          /\ IF info # NoneValue
             THEN /\ all_successful_results' = Append(all_successful_results, info)
                  /\ segment_log' = Append(segment_log, [ev |-> "match", info |-> info])
             ELSE /\ all_successful_results' = all_successful_results
                  /\ segment_log' = Append(segment_log, [ev |-> "no_match"])
    /\ pc' = "sleep"
    /\ UNCHANGED <<envVars, argVars, batchVars, fileVars, exit_status, duration,
                   start_times, seg_index, fp, result, resolver_calls, song_info,
                   results>>

\* time.sleep(0.5), the last statement of the try block
Sleep ==
    /\ pc = "sleep"
    /\ segment_log' = Append(segment_log, [ev |-> "sleep"])
    /\ seg_index' = seg_index + 1
    /\ pc' = "loop"
    /\ UNCHANGED <<envVars, argVars, batchVars, fileVars, exit_status, duration,
                   start_times, fp, result, all_successful_results, resolver_calls,
                   song_info, results>>

\* `return find_most_common_result(all_successful_results)`
ReturnConsensus ==
    /\ pc = "loop"
    /\ seg_index >= Len(start_times)
    /\ results' = all_successful_results
    /\ resolver_calls' = Append(resolver_calls, all_successful_results)
    /\ song_info' = FindMostCommonResult(all_successful_results)
    /\ pc' = "write"
    /\ UNCHANGED <<envVars, argVars, batchVars, fileVars, loopVars, exit_status,
                   duration, start_times, segment_log>>

(* process_path, after recognize_song *)

\* `if song_info: update_metadata(file_path, song_info, tags_to_write)`
WriteTags ==
    /\ pc = "write"
    /\ song_info # NoneValue
    /\ \E loader_ok \in BOOLEAN, save_ok \in BOOLEAN :
          LET done == UpdateMetadata(file, song_info, tags_to_write, loader_ok, save_ok)
          IN file' = done.file /\ saved' = done.saved
    /\ files_left' = files_left - 1
    /\ pc' = "next_file"
    /\ UNCHANGED <<envVars, argVars, skipped_count, candidates, tags_before, probed,
                   loopVars, exit_status, duration, start_times, segment_log,
                   resolver_calls, song_info, results>>

\* `else: print(...)`: no match, nothing is written
NoMatch ==
    /\ pc = "write"
    /\ song_info = NoneValue
    /\ files_left' = files_left - 1
    /\ pc' = "next_file"
    /\ UNCHANGED <<envVars, argVars, skipped_count, candidates, fileVars, loopVars,
                   exit_status, duration, start_times, segment_log, resolver_calls,
                   song_info, results>>

(* single calls *)

CallFindMostCommonResult ==
    /\ pc = "vote"
    /\ song_info' = FindMostCommonResult(results)
    /\ pc' = "voted"
    /\ UNCHANGED <<envVars, argVars, batchVars, fileVars, loopVars, exit_status,
                   duration, start_times, segment_log, resolver_calls, results>>

CallExtractSongInfo ==
    /\ pc = "extract_call"
    /\ song_info' = ExtractSongInfo(result)
    /\ pc' = "extracted"
    /\ UNCHANGED <<envVars, argVars, batchVars, fileVars, loopVars, exit_status,
                   duration, start_times, segment_log, resolver_calls, results>>

-----------------------------------------------------------------------------
(* Specifications *)

Next ==
    \/ ImportGuard
    \/ ProcessPath
    \/ NextFile
    \/ Finish
    \/ SkipFile
    \/ ProbeDuration
    \/ PlanStartTimes
    \/ BeginSegment
    \/ FingerprintRaises
    \/ FingerprintEmpty
    \/ FingerprintReturned
    \/ MatchRaises
    \/ MatchReturns
    \/ ExtractRaises
    \/ ExtractReturns
    \/ Sleep
    \/ ReturnConsensus
    \/ WriteTags
    \/ NoMatch

\* the whole program
Spec == Init /\ [][Next]_vars

\* the whole program on the batch files
SpecBatch == InitBatch /\ [][Next]_vars

\* the planning of recognize_song alone
SpecPlan == InitPlan /\ [][PlanStartTimes]_vars

\* find_most_common_result alone
SpecVote == InitVote /\ [][CallFindMostCommonResult]_vars

\* extract_song_info alone
SpecExtract == InitExtract /\ [][CallExtractSongInfo]_vars

-----------------------------------------------------------------------------
(* Properties of recognize_song's loop (Spec) *)

InLoop == pc \in {"loop", "fingerprint", "match", "extract", "sleep"}

\* recognize_song was called for the current file and is no longer running
Returned == probed /\ pc # "plan" /\ ~InLoop

EventsOf(kind) == SelectSeq(segment_log, LAMBDA e : e.ev = kind)

AttemptedOffsets == [i \in 1..Len(EventsOf("attempt")) |-> EventsOf("attempt")[i].offset]

SuccessfulInfos == [i \in 1..Len(EventsOf("match")) |-> EventsOf("match")[i].info]

\* C1: the offsets attempted so far are the first planned offsets, each once
\* and in plan order, whatever the earlier attempts ended with; nothing is
\* resolved while offsets remain; once recognize_song is left, every planned
\* offset has been attempted and find_most_common_result has been called
\* exactly once, with the SongInfos of the successful attempts in plan order.
C1_EveryOffsetAttempted ==
    /\ Len(AttemptedOffsets) <= Len(start_times)
    /\ AttemptedOffsets = SubSeq(start_times, 1, Len(AttemptedOffsets))
    /\ InLoop => resolver_calls = << >>
    /\ Returned => /\ AttemptedOffsets = start_times
                   /\ resolver_calls = <<SuccessfulInfos>>

\* C1 witness: three offsets were planned, the attempts ended with an
\* exception, with an empty fingerprint, with no song info and with a match,
\* and recognize_song has returned.
C1_Witness ==
    /\ Returned
    /\ Len(start_times) = 3
    /\ Len(EventsOf("exception")) + Len(EventsOf("no_fingerprint"))
           + Len(EventsOf("no_match")) = 2
    /\ Len(EventsOf("exception")) > 0
    /\ Len(EventsOf("match")) = 1

\* C9: every attempt but the first starts right after a delay, the last
\* event of the attempt before it.
C9_DelayAfterEveryAttempt ==
    \A k \in 2..Len(segment_log) :
        segment_log[k].ev = "attempt" => segment_log[k - 1].ev = "sleep"

\* C8: with a required collaborator missing the run gets no further than the
\* import guard, exits with status 1, and no file is probed, fingerprinted
\* or written.
C8_MissingCollaboratorExits ==
    (~pythonmonkey_available \/ ~afp_js_available \/ ~pyncm_available)
        => /\ pc \in {"import", "exited"}
           /\ pc = "exited" => exit_status = 1
           /\ ~probed /\ ~saved /\ segment_log = << >>

-----------------------------------------------------------------------------
(* Properties of process_path (SpecBatch) *)

NonBlank(s) == \E i \in 1..Len(s) : s[i] \notin Whitespace

\* title, artist and album are all present and non-blank, and readable
AllTagsPresent(f) ==
    /\ f.open = "ok"
    /\ \A k \in Fields : /\ k \in DOMAIN f.tags
                         /\ Len(f.tags[k]) > 0
                         /\ NonBlank(f.tags[k][1])

\* C6: at the gate the file is skipped (the counter goes up by one, and the
\* file is done without a probe, a segment attempt or a save) exactly when
\* force_update is false and has_complete_tags is true; otherwise
\* recognize_song runs; and has_complete_tags is true only for a readable
\* file whose three tags are present and non-blank.
C6_SkipExactlyWhenComplete ==
    [][pc = "gate" =>
          /\ HasCompleteTags(file) => AllTagsPresent(file)
          /\ IF ~force_update /\ HasCompleteTags(file)
             THEN /\ skipped_count' = skipped_count + 1
                  /\ pc' = "next_file"
                  /\ files_left' = files_left - 1
                  /\ ~probed' /\ ~saved' /\ segment_log' = << >>
                  /\ file' = file
             ELSE /\ skipped_count' = skipped_count
                  /\ pc' = "plan"
                  /\ probed']_vars

\* C6 witness: a file with complete tags has been skipped.
C6_Witness ==
    /\ pc = "next_file"
    /\ file # NoneValue
    /\ ~probed
    /\ skipped_count > 0
    /\ AllTagsPresent(file)

TagOf(tags, k) == IF k \in DOMAIN tags THEN Some(tags[k]) ELSE Missing

\* C7: a tag of the current file differs from its value when the file's
\* turn began only if the field is in the consensus result and in
\* tags_to_write, and then it is the consensus value; a skipped file and a
\* file without consensus result keep their tags, and nothing is saved.
C7_OnlyVotedFieldsChange ==
    file # NoneValue =>
        /\ \A k \in Fields :
               TagOf(file.tags, k) # TagOf(tags_before, k)
                   => /\ song_info # NoneValue
                      /\ k \in DOMAIN song_info
                      /\ k \in tags_to_write
                      /\ file.tags[k] = <<song_info[k]>>
        /\ (~probed \/ song_info = NoneValue)
               => file.tags = tags_before /\ ~saved

\* C7 witness: the title was replaced by the consensus title while the
\* artist, also in the consensus result but not in tags_to_write, was kept.
C7_Witness ==
    /\ pc = "next_file"
    /\ file # NoneValue
    /\ song_info # NoneValue
    /\ tags_to_write = {"title"}
    /\ "artist" \in DOMAIN song_info
    /\ "artist" \in DOMAIN tags_before
    /\ TagOf(file.tags, "title") # TagOf(tags_before, "title")
    /\ file.tags["artist"] = tags_before["artist"]

-----------------------------------------------------------------------------
(* Properties of the planning (SpecPlan) *)

DurationKnown == duration # NoneValue

\* the duration and the window in ticks of 2^-FracBits seconds
DurationTicks == LimbsToNat(duration.m)
WindowTicks == FINGERPRINT_DURATION * Pow2(FracBits)

NormalDuration ==
    IF DurationKnown THEN DurationTicks >= WindowTicks ELSE FALSE

\* C3: for D >= W and n > 1 there are n offsets, non-decreasing, the first
\* 0, the last <= D - W, and offset i is floor(i * E / (n - 1)).
C3_EvenlySpaced ==
    (pc = "loop" /\ NormalDuration /\ num_segments > 1)
        => /\ Len(start_times) = num_segments
           /\ \A i \in 1..Len(start_times), j \in 1..Len(start_times) :
                  i <= j => start_times[i] <= start_times[j]
           /\ start_times[1] = 0
           /\ start_times[Len(start_times)] * Pow2(FracBits)
                  <= DurationTicks - WindowTicks
           /\ \A i \in 1..Len(start_times) :
                  start_times[i] =
                      ((i - 1) * (DurationTicks - WindowTicks))
                          \div ((num_segments - 1) * Pow2(FracBits))

\* C4: for D >= W and n >= 1 a whole window fits after every offset.
C4_WindowFits ==
    (pc = "loop" /\ NormalDuration /\ num_segments >= 1)
        => \A i \in 1..Len(start_times) :
               /\ start_times[i] >= 0
               /\ (start_times[i] + FINGERPRINT_DURATION) * Pow2(FracBits)
                      <= DurationTicks

\* C5 as claimed: at least one offset and at most num_segments offsets, for
\* every duration and every integer num_segments.
C5_CountWithinRequest ==
    pc = "loop" => Len(start_times) >= 1 /\ Len(start_times) <= num_segments

\* C5 as amended: that holds for num_segments >= 1; for num_segments <= 0 the
\* plan is [0] when the duration is known and shorter than the window, and
\* empty otherwise.
C5_CountWithinPositiveRequest ==
    pc = "loop" =>
        IF num_segments >= 1
        THEN Len(start_times) >= 1 /\ Len(start_times) <= num_segments
        ELSE IF DurationKnown /\ ~NormalDuration
        THEN start_times = <<0>>
        ELSE start_times = << >>

\* C5 witness: a duration too short for the window gives one offset although
\* more were requested.
C5_Witness ==
    /\ pc = "loop"
    /\ num_segments > 1
    /\ DurationKnown
    /\ Len(start_times) = 1

-----------------------------------------------------------------------------
(* Properties of find_most_common_result (SpecVote) *)

\* the inputs that carry a non-empty value of field f
Suppliers(f) == {i \in 1..Len(results) : f \in DOMAIN results[i] /\ results[i][f] # << >>}

Votes(f, v) == Cardinality({i \in Suppliers(f) : results[i][f] = v})

FirstSeen(f, v) ==
    CHOOSE i \in Suppliers(f) :
        results[i][f] = v /\ \A j \in Suppliers(f) : results[j][f] = v => i <= j

\* C2: field by field, the field is in the result exactly when some input
\* has a non-empty value of it, and its value then has the most votes, the
\* first seen of the values with the most votes; the result is None exactly
\* when no input supplies any field.
C2_PerFieldMajority ==
    pc = "voted" =>
        /\ song_info = NoneValue <=> \A f \in Fields : Suppliers(f) = {}
        /\ song_info # NoneValue =>
               \A f \in Fields :
                   /\ f \in DOMAIN song_info <=> Suppliers(f) # {}
                   /\ f \in DOMAIN song_info =>
                          /\ \E i \in Suppliers(f) : results[i][f] = song_info[f]
                          /\ \A j \in Suppliers(f) :
                                 \/ Votes(f, results[j][f]) < Votes(f, song_info[f])
                                 \/ /\ Votes(f, results[j][f]) = Votes(f, song_info[f])
                                    /\ FirstSeen(f, song_info[f]) <= FirstSeen(f, results[j][f])

\* C2 witness: two titles tie and the first seen wins; the winning artist
\* comes from the other segment.
C2_Witness ==
    /\ pc = "voted"
    /\ results = <<[title |-> Str("B")], [title |-> Str("A"), artist |-> Str("Y")]>>
    /\ song_info = [title |-> Str("B"), artist |-> Str("Y")]

-----------------------------------------------------------------------------
(* Properties of extract_song_info (SpecExtract) *)

\* the song of the response's first candidate, {} when there is none
FirstSong ==
    LET data == Get(result, "data", EmptyDict)
        songs == IF data = NoneValue THEN << >> ELSE Get(data, "result", << >>)
        song == IF songs = << >> THEN EmptyDict ELSE Get(songs[1], "song", EmptyDict)
    IN IF song = NoneValue THEN EmptyDict ELSE song

\* the names the first candidate's artist entries carry
RECURSIVE SuppliedNames(_)
SuppliedNames(entries) ==
    IF entries = << >> THEN << >>
    ELSE (IF "name" \in DOMAIN Head(entries) THEN <<Head(entries)["name"]>> ELSE << >>)
         \o SuppliedNames(Tail(entries))

SuppliedAlbum ==
    LET album == Get(FirstSong, "album", EmptyDict)
    IN IF album = NoneValue THEN << >> ELSE Get(album, "name", << >>)

\* what the response supplies, field by field ("" when missing)
Supplied ==
    [k \in Fields |->
        IF k = "title" THEN Get(FirstSong, "name", << >>)
        ELSE IF k = "artist"
        THEN Join(ArtistSeparator, SuppliedNames(Get(FirstSong, "artists", << >>)))
        ELSE SuppliedAlbum]

\* C10: the SongInfo returned holds exactly the fields the first candidate
\* supplies a non-empty value for, with that value (artist: the ' & '-join
\* of the names supplied); a response supplying none yields None.
C10_NeverInvents ==
    (pc = "extracted" /\ "raised" \notin DOMAIN song_info) =>
        IF \A k \in Fields : Supplied[k] = << >>
        THEN song_info = NoneValue
        ELSE /\ song_info # NoneValue
             /\ DOMAIN song_info = {k \in Fields : Supplied[k] # << >>}
             /\ \A k \in DOMAIN song_info : song_info[k] = Supplied[k]

====
